---- MODULE Spec2Model ----
(***************************************************************************)
(* TextStore (src/src/index.ts): a line array with a size counter and two  *)
(* sparse-array caches, indexToPosCache (block offset -> position) and     *)
(* lineToIndexCache (line -> offset), that accelerate the conversions      *)
(* between (line, col) positions and flat character offsets.               *)
(*                                                                         *)
(* Strings are sequences of one-character strings; the newline is NL.      *)
(* JavaScript arrays are 0-based: element k of a JS array is element k+1   *)
(* of the sequence that models it.                                         *)
(***************************************************************************)
EXTENDS Integers, Sequences, FiniteSets, TLC

\* const DEFAULT_BLOCK_SIZE = 10
DEFAULT_BLOCK_SIZE == 10

NL == "\n"

Max(a, b) == IF a > b THEN a ELSE b
Min(a, b) == IF a < b THEN a ELSE b

(***************************************************************************)
(* String and array primitives of the JavaScript runtime used by the code. *)
(***************************************************************************)

\* Relative index of String.prototype.slice / Array.prototype.slice:
\* a negative index counts from the end, everything is clipped to [0, len].
sliceIndex(len, x) == IF x < 0 THEN Max(len + x, 0) ELSE Min(x, len)

\* s.slice(a, b)
slice(s, a, b) == SubSeq(s, sliceIndex(Len(s), a) + 1, sliceIndex(Len(s), b))

\* s.slice(a)
sliceFrom(s, a) == SubSeq(s, sliceIndex(Len(s), a) + 1, Len(s))

\* str.split(/\n/): the pieces between newlines; "" splits into [""].
\* Piece k runs from just after the (k-1)-th newline to just before the k-th.
split(s) ==
    LET nl == {i \in 1..Len(s) : s[i] = NL}
        kth(k) == CHOOSE i \in nl : Cardinality({j \in nl : j <= i}) = k
        first(k) == IF k = 1 THEN 1 ELSE kth(k - 1) + 1
        last(k) == IF k = Cardinality(nl) + 1 THEN Len(s) ELSE kth(k) - 1
    IN  [k \in 1..(Cardinality(nl) + 1) |-> SubSeq(s, first(k), last(k))]

\* arr.join('\n')
RECURSIVE join(_)
join(arr) ==
    IF Len(arr) = 0 THEN <<>>
    ELSE IF Len(arr) = 1 THEN arr[1]
    ELSE arr[1] \o <<NL>> \o join(Tail(arr))

\* arr.splice(start, deleteCount, ...items) with 0 <= start <= arr.length:
\* the elements removed, and the array afterwards.
spliceCount(arr, start, deleteCount) == Min(Max(deleteCount, 0), Len(arr) - start)

spliceRemoved(arr, start, deleteCount) ==
    SubSeq(arr, start + 1, start + spliceCount(arr, start, deleteCount))

spliceResult(arr, start, deleteCount, items) ==
    SubSeq(arr, 1, start) \o items
        \o SubSeq(arr, start + spliceCount(arr, start, deleteCount) + 1, Len(arr))

\* clamp(value, min, max) of the npm package 'clamp' imported on line 1.
clamp(value, min, max) ==
    IF min < max
    THEN (IF value < min THEN min ELSE IF value > max THEN max ELSE value)
    ELSE (IF value < max THEN max ELSE IF value > min THEN min ELSE value)

(***************************************************************************)
(* SCache<ITextPosition> and VCache<number>: sparse arrays.  A hole (and   *)
(* any read outside the array) is undefined: NoPos in the block cache,     *)
(* Undefined in the line cache.  The array length is kept, since           *)
(* slice(0, n) with a negative n counts from it.                           *)
(***************************************************************************)
NoPos == [set |-> FALSE, line |-> 0, col |-> 0]

Pos(l, c) == [set |-> TRUE, line |-> l, col |-> c]

Undefined == -1

\* arr[k] of a sparse array whose holes read as `hole`
arrayGet(arr, k, hole) == IF k >= 0 /\ k < Len(arr) THEN arr[k + 1] ELSE hole

\* arr[k] = value, k >= 0: the array grows, with holes, up to k
arraySet(arr, k, value, hole) ==
    [j \in 1..Max(Len(arr), k + 1) |->
        IF j = k + 1 THEN value ELSE IF j <= Len(arr) THEN arr[j] ELSE hole]

roundToLowerBlockSize(index) == (index \div DEFAULT_BLOCK_SIZE) * DEFAULT_BLOCK_SIZE

\* SCache.get: this.arr[idx / DEFAULT_BLOCK_SIZE]; a fractional key reads undefined
SCacheGet(arr, idx) ==
    IF idx % DEFAULT_BLOCK_SIZE = 0
    THEN arrayGet(arr, idx \div DEFAULT_BLOCK_SIZE, NoPos)
    ELSE NoPos

\* SCache.set (every caller passes a positive multiple of the block size)
SCacheSet(arr, idx, value) == arraySet(arr, idx \div DEFAULT_BLOCK_SIZE, value, NoPos)

\* SCache.flush: this.arr = this.arr.slice(0, from / DEFAULT_BLOCK_SIZE)
SCacheFlush(arr, from) == slice(arr, 0, from \div DEFAULT_BLOCK_SIZE)

VCacheGet(arr, idx) == arrayGet(arr, idx, Undefined)

VCacheSet(arr, idx, value) == arraySet(arr, idx, value, Undefined)

VCacheFlush(arr, from) == slice(arr, 0, from)

\* `if (x)` / `!x` on a cached number: undefined and 0 are both falsy
Truthy(v) == v /= Undefined /\ v /= 0

(***************************************************************************)
(* Anchor search, block variant (findHighestCachedIndexToPos).  start and  *)
(* end are multiples of the block size, so (end - start) / 2 is a whole    *)
(* number and only the rounding to the block size remains.                 *)
(***************************************************************************)
NoAnchor == [found |-> FALSE, index |-> 0, pos |-> NoPos]

\* the search giving up on a miss instead of looking lower in the index
RECURSIVE findHighestCachedIndexToPosNoDescent(_, _, _)
findHighestCachedIndexToPosNoDescent(arr, start, end) ==
    LET raw == ((end - start) \div 2) + start
        middleIdx == IF raw % DEFAULT_BLOCK_SIZE /= 0
                     THEN roundToLowerBlockSize(raw) ELSE raw
        ret == SCacheGet(arr, middleIdx)
    IN  IF middleIdx < DEFAULT_BLOCK_SIZE THEN NoAnchor
        ELSE IF ret.set
        THEN (IF start /= middleIdx /\ end /= middleIdx
              THEN findHighestCachedIndexToPosNoDescent(arr, middleIdx, end)
              ELSE [found |-> TRUE, index |-> middleIdx, pos |-> ret])
        ELSE NoAnchor

RECURSIVE findHighestCachedIndexToPos(_, _, _)
findHighestCachedIndexToPos(arr, start, end) ==
    LET raw == ((end - start) \div 2) + start
        middleIdx == IF raw % DEFAULT_BLOCK_SIZE /= 0
                     THEN roundToLowerBlockSize(raw) ELSE raw
        ret == SCacheGet(arr, middleIdx)
    IN  IF middleIdx < DEFAULT_BLOCK_SIZE THEN NoAnchor
        ELSE IF ret.set
        THEN (IF start /= middleIdx /\ end /= middleIdx
              THEN findHighestCachedIndexToPos(arr, middleIdx, end)
              ELSE [found |-> TRUE, index |-> middleIdx, pos |-> ret])
        ELSE IF start /= middleIdx
        THEN findHighestCachedIndexToPos(arr, start, middleIdx)
        ELSE NoAnchor

(***************************************************************************)
(* indexToPosition, lines 127-147: the anchor the walk starts from.        *)
(***************************************************************************)
indexToPositionAnchor(arr, index) ==
    LET closestIndex == roundToLowerBlockSize(index)
        first == SCacheGet(arr, closestIndex)
        oneBlockShortIndex == closestIndex - DEFAULT_BLOCK_SIZE
        second == SCacheGet(arr, oneBlockShortIndex)
        res == findHighestCachedIndexToPos(arr, DEFAULT_BLOCK_SIZE, closestIndex)
    IN  IF first.set THEN [index |-> closestIndex, pos |-> first]
        ELSE IF second.set THEN [index |-> oneBlockShortIndex, pos |-> second]
        ELSE IF res.found THEN [index |-> res.index, pos |-> res.pos]
        ELSE [index |-> 0, pos |-> Pos(0, 0)]

\* fillBlocks caching the absolute offset as the column (steppedCharCount not
\* subtracted)
RECURSIVE fillBlocksAbsoluteCol(_, _, _, _, _)
fillBlocksAbsoluteCol(arr, closestIndex, highestIndexableStop, lineNumber, steppedCharCount) ==
    IF closestIndex = highestIndexableStop THEN arr
    ELSE LET next == closestIndex + DEFAULT_BLOCK_SIZE
             written == IF ~SCacheGet(arr, next).set
                        THEN SCacheSet(arr, next, Pos(lineNumber, next))
                        ELSE arr
         IN  fillBlocksAbsoluteCol(written, next, highestIndexableStop, lineNumber,
                                   steppedCharCount)

\* the loop writing only the stop it ends on, not the boundaries on the way
fillBlocksOnlyStop(arr, closestIndex, highestIndexableStop, lineNumber, steppedCharCount) ==
    IF closestIndex = highestIndexableStop THEN arr
    ELSE IF ~SCacheGet(arr, highestIndexableStop).set
    THEN SCacheSet(arr, highestIndexableStop,
                   Pos(lineNumber, highestIndexableStop - steppedCharCount))
    ELSE arr

\* lines 161-166, entered with closestIndex <= highestIndexableStop:
\* every block boundary up to the stop is written unless already present
RECURSIVE fillBlocks(_, _, _, _, _)
fillBlocks(arr, closestIndex, highestIndexableStop, lineNumber, steppedCharCount) ==
    IF closestIndex = highestIndexableStop THEN arr
    ELSE LET next == closestIndex + DEFAULT_BLOCK_SIZE
             written == IF ~SCacheGet(arr, next).set
                        THEN SCacheSet(arr, next, Pos(lineNumber, next - steppedCharCount))
                        ELSE arr
         IN  fillBlocks(written, next, highestIndexableStop, lineNumber, steppedCharCount)

(***************************************************************************)
(* indexToPosition, lines 155-175: the walk over the lines.  The inner     *)
(* loop `while (closestIndex !== highestIndexableStop) closestIndex += 10` *)
(* never ends when it is entered with closestIndex above the stop: the     *)
(* call then does not return (outcome "hang").                             *)
(* The result holds lineNumber and colNumber as the loop leaves them and   *)
(* the two caches as the call leaves them.                                 *)
(***************************************************************************)
RECURSIVE walkLines(_, _, _, _, _, _, _)
walkLines(ls, index, ipc, lic, closestIndex, lineNumber, steppedCharCount) ==
    IF ~(lineNumber < Len(ls))
    THEN [outcome |-> "ok", line |-> lineNumber, col |-> 0, ipc |-> ipc, lic |-> lic]
    ELSE LET cLine == ls[lineNumber + 1]
             \* currentLine is the constant 0
             newLineCharLen == IF 0 < Len(ls) THEN 1 ELSE 0
             charCount == Len(cLine) + newLineCharLen
             steppedCharCountAfterThisCycle == steppedCharCount + charCount
             highestIndexableStop == roundToLowerBlockSize(steppedCharCountAfterThisCycle)
         IN  IF closestIndex > highestIndexableStop
             THEN [outcome |-> "hang", line |-> lineNumber, col |-> 0,
                   ipc |-> ipc, lic |-> lic]
             ELSE LET ipc2 == fillBlocks(ipc, closestIndex, highestIndexableStop,
                                         lineNumber, steppedCharCount)
                      lic2 == VCacheSet(lic, lineNumber, steppedCharCount + newLineCharLen)
                  IN  IF steppedCharCountAfterThisCycle > index
                      THEN [outcome |-> "ok", line |-> lineNumber,
                            col |-> index - steppedCharCount, ipc |-> ipc2, lic |-> lic2]
                      ELSE walkLines(ls, index, ipc2, lic2, highestIndexableStop,
                                     lineNumber + 1, steppedCharCount + charCount)

\* indexToPosition(index) on a store with lines ls, size sz and caches ipc, lic
\* (the position returned is 1-based: { col: colNumber + 1, line: lineNumber + 1 })
indexToPosition(ls, sz, ipc, lic, index) ==
    IF index > sz
    THEN [outcome |-> "IndexOutOfRange", pos |-> [line |-> 0, col |-> 0],
          ipc |-> ipc, lic |-> lic]
    ELSE LET a == indexToPositionAnchor(ipc, index)
             w == walkLines(ls, index, ipc, lic, a.index, a.pos.line, a.index - a.pos.col)
         IN  [outcome |-> w.outcome, pos |-> [line |-> w.line + 1, col |-> w.col + 1],
              ipc |-> w.ipc, lic |-> w.lic]

(***************************************************************************)
(* Anchor search, line variant (findHighestCachedLineToIndex).             *)
(* `(diff % 2 !== 0 ? diff++ : diff) / 2` is diff / 2 (the post-increment  *)
(* yields the old value), a fraction when diff is odd.  A fractional key   *)
(* is never set, so the search goes down to (start, middleIdx) and keeps   *)
(* halving the fractional gap until the floating-point midpoint rounds to  *)
(* start itself (ties to even); it ends there, exactly as a search over    *)
(* (start, start) does.                                                    *)
(***************************************************************************)
NoLineAnchor == [found |-> FALSE, line |-> 0, index |-> 0]

RECURSIVE findHighestCachedLineToIndex(_, _, _)
findHighestCachedLineToIndex(arr, start, end) ==
    LET diff == end - start
        middleIdx == (diff \div 2) + start
        ret == VCacheGet(arr, middleIdx)
    IN  IF diff % 2 /= 0 THEN findHighestCachedLineToIndex(arr, start, start)
        ELSE IF middleIdx < 0 THEN NoLineAnchor
        ELSE IF Truthy(ret)
        THEN (IF start /= middleIdx /\ end /= middleIdx
              THEN findHighestCachedLineToIndex(arr, middleIdx, end)
              ELSE [found |-> TRUE, line |-> middleIdx, index |-> ret])
        ELSE IF start /= middleIdx
        THEN findHighestCachedLineToIndex(arr, start, middleIdx)
        ELSE NoLineAnchor

\* zeroBasedPosToIndex, lines 196-214: the anchor line and its cached value
zeroBasedPosToIndexAnchor(arr, line) ==
    LET first == VCacheGet(arr, line)
        second == VCacheGet(arr, line - 1)
        res == findHighestCachedLineToIndex(arr, 0, line)
    IN  IF Truthy(first) THEN [line |-> line, index |-> first]
        ELSE IF Truthy(second) THEN [line |-> line - 1, index |-> second]
        ELSE IF res.found THEN [line |-> res.line, index |-> res.index]
        ELSE [line |-> 0, index |-> 0]

\* zeroBasedPosToIndex, lines 221-229: the walk up to the target line
RECURSIVE walkToLine(_, _, _, _, _)
walkToLine(ls, lic, currentLine, offset, line) ==
    LET newLineCharLen == IF currentLine < Len(ls) THEN 1 ELSE 0
        lic2 == VCacheSet(lic, currentLine, offset + newLineCharLen)
    IN  IF currentLine = line THEN [offset |-> offset, lic |-> lic2]
        ELSE walkToLine(ls, lic2, currentLine + 1,
                        offset + Len(ls[currentLine + 1]) + newLineCharLen, line)

\* zeroBasedPosToIndex(zeroBasedPos): the index returned and the line cache left
zeroBasedPosToIndex(ls, lic, zeroBasedPos) ==
    LET a == zeroBasedPosToIndexAnchor(lic, zeroBasedPos.line)
        offset == a.index - 1
        cont == a.line <= zeroBasedPos.line
        w == IF cont THEN walkToLine(ls, lic, a.line, offset, zeroBasedPos.line)
             ELSE [offset |-> offset, lic |-> lic]
    IN  [index |-> w.offset + zeroBasedPos.col, lic |-> w.lic]

convertPosToZeroBased(pos) == [line |-> pos.line - 1, col |-> pos.col - 1]

(***************************************************************************)
(* checkTextPosition: "ok" or the error thrown.  lines[pos.line] is        *)
(* undefined for pos.line = lines.length and for a negative pos.line, and  *)
(* reading .length of undefined throws a TypeError.                        *)
(***************************************************************************)
checkTextPosition(ls, pos) ==
    IF pos.line > Len(ls) THEN "PositionOutOfRange"
    ELSE IF pos.line < 0 \/ pos.line >= Len(ls) THEN "TypeError"
    ELSE IF pos.col > Len(ls[pos.line + 1]) THEN "PositionOutOfRange"
    ELSE IF pos.col < 0 \/ pos.line < 0 THEN "InvalidPosition"
    ELSE "ok"

\* positionToIndex(pos): outcome, the index returned, the line cache left
positionToIndex(ls, lic, pos) ==
    LET zeroBasedPos == convertPosToZeroBased(pos)
        chk == checkTextPosition(ls, zeroBasedPos)
        r == zeroBasedPosToIndex(ls, lic, zeroBasedPos)
    IN  IF chk /= "ok" THEN [outcome |-> chk, index |-> 0, lic |-> lic]
        ELSE [outcome |-> "ok", index |-> r.index, lic |-> r.lic]

\* flushCache(from): both caches afterwards
flushCache(ls, ipc, lic, from) ==
    LET r == zeroBasedPosToIndex(ls, lic, from)
    IN  [lic |-> VCacheFlush(r.lic, from.line),
         ipc |-> SCacheFlush(ipc, roundToLowerBlockSize(r.index))]

(***************************************************************************)
(* The mutating operations.  Each yields the outcome ("ok" or the error    *)
(* thrown) and the fields of the store afterwards; a call that throws      *)
(* leaves the fields as they were when the exception left the method.      *)
(***************************************************************************)
Store(o, ls, sz, ipc, lic) ==
    [outcome |-> o, lines |-> ls, size |-> sz, ipc |-> ipc, lic |-> lic]

\* insert slicing the line at the 1-based column (at.col instead of pos.col)
insertAtOneBasedCol(ls, sz, ipc, lic, str, at) ==
    LET pos == convertPosToZeroBased(at)
        chk == checkTextPosition(ls, pos)
        f == flushCache(ls, ipc, lic, pos)
        old == ls[pos.line + 1]
        updated == slice(old, 0, at.col) \o str \o sliceFrom(old, at.col)
    IN  IF Len(str) = 0 THEN Store("ok", ls, sz, ipc, lic)
        ELSE IF chk /= "ok" THEN Store(chk, ls, sz, ipc, lic)
        ELSE Store("ok", spliceResult(ls, pos.line, 1, split(updated)),
                   sz + Len(str), f.ipc, f.lic)

\* insert(str, at)
insert(ls, sz, ipc, lic, str, at) ==
    LET pos == convertPosToZeroBased(at)
        chk == checkTextPosition(ls, pos)
        f == flushCache(ls, ipc, lic, pos)
        old == ls[pos.line + 1]
        updated == slice(old, 0, pos.col) \o str \o sliceFrom(old, pos.col)
    IN  IF Len(str) = 0 THEN Store("ok", ls, sz, ipc, lic)
        ELSE IF chk /= "ok" THEN Store(chk, ls, sz, ipc, lic)
        ELSE Store("ok", spliceResult(ls, pos.line, 1, split(updated)),
                   sz + Len(str), f.ipc, f.lic)

\* replace adding str.length to the size, as insert does (instead of
\* updated.length)
replaceSizeByText(ls, sz, ipc, lic, range, str) ==
    LET start == convertPosToZeroBased(range.start)
        end == convertPosToZeroBased(range.end)
        chkStart == checkTextPosition(ls, start)
        chkEnd == checkTextPosition(ls, end)
        f == flushCache(ls, ipc, lic, start)
        updated == slice(ls[start.line + 1], 0, start.col) \o str
                       \o sliceFrom(ls[end.line + 1], end.col)
        deleteCount == (end.line + 1) - start.line
        removedLines == spliceRemoved(ls, start.line, deleteCount)
    IN  IF chkStart /= "ok" THEN Store(chkStart, ls, sz, ipc, lic)
        ELSE IF chkEnd /= "ok" THEN Store(chkEnd, ls, sz, ipc, lic)
        ELSE Store("ok", spliceResult(ls, start.line, deleteCount, split(updated)),
                   (sz - Len(join(removedLines))) + Len(str), f.ipc, f.lic)

\* replace taking the suffix of the end line one character late (end.col + 1)
replaceSuffixOffByOne(ls, sz, ipc, lic, range, str) ==
    LET start == convertPosToZeroBased(range.start)
        end == convertPosToZeroBased(range.end)
        chkStart == checkTextPosition(ls, start)
        chkEnd == checkTextPosition(ls, end)
        f == flushCache(ls, ipc, lic, start)
        updated == slice(ls[start.line + 1], 0, start.col) \o str
                       \o sliceFrom(ls[end.line + 1], end.col + 1)
        deleteCount == (end.line + 1) - start.line
        removedLines == spliceRemoved(ls, start.line, deleteCount)
    IN  IF chkStart /= "ok" THEN Store(chkStart, ls, sz, ipc, lic)
        ELSE IF chkEnd /= "ok" THEN Store(chkEnd, ls, sz, ipc, lic)
        ELSE Store("ok", spliceResult(ls, start.line, deleteCount, split(updated)),
                   (sz - Len(join(removedLines))) + Len(updated), f.ipc, f.lic)

\* replace flushing the caches once the start is checked, before the end is
\* checked
replaceFlushBeforeEndCheck(ls, sz, ipc, lic, range, str) ==
    LET start == convertPosToZeroBased(range.start)
        end == convertPosToZeroBased(range.end)
        chkStart == checkTextPosition(ls, start)
        chkEnd == checkTextPosition(ls, end)
        f == flushCache(ls, ipc, lic, start)
        updated == slice(ls[start.line + 1], 0, start.col) \o str
                       \o sliceFrom(ls[end.line + 1], end.col)
        deleteCount == (end.line + 1) - start.line
        removedLines == spliceRemoved(ls, start.line, deleteCount)
    IN  IF chkStart /= "ok" THEN Store(chkStart, ls, sz, ipc, lic)
        ELSE IF chkEnd /= "ok" THEN Store(chkEnd, ls, sz, f.ipc, f.lic)
        ELSE Store("ok", spliceResult(ls, start.line, deleteCount, split(updated)),
                   (sz - Len(join(removedLines))) + Len(updated), f.ipc, f.lic)

\* replace(range, str)
replace(ls, sz, ipc, lic, range, str) ==
    LET start == convertPosToZeroBased(range.start)
        end == convertPosToZeroBased(range.end)
        chkStart == checkTextPosition(ls, start)
        chkEnd == checkTextPosition(ls, end)
        f == flushCache(ls, ipc, lic, start)
        updated == slice(ls[start.line + 1], 0, start.col) \o str
                       \o sliceFrom(ls[end.line + 1], end.col)
        deleteCount == (end.line + 1) - start.line
        removedLines == spliceRemoved(ls, start.line, deleteCount)
    IN  IF chkStart /= "ok" THEN Store(chkStart, ls, sz, ipc, lic)
        ELSE IF chkEnd /= "ok" THEN Store(chkEnd, ls, sz, ipc, lic)
        ELSE Store("ok", spliceResult(ls, start.line, deleteCount, split(updated)),
                   (sz - Len(join(removedLines))) + Len(updated), f.ipc, f.lic)

\* remove(range)
remove(ls, sz, ipc, lic, range) == replace(ls, sz, ipc, lic, range, <<>>)

\* getSize()
getSize(sz) == sz

(***************************************************************************)
(* clampTextPosition: the clamped position, or a TypeError when the        *)
(* clamped line is lines.length (lines[clampedLine] is then undefined).    *)
(***************************************************************************)
clampTextPosition(ls, pos) ==
    LET clampedLine == clamp(pos.line, 1, Len(ls))
    IN  IF clampedLine < 0 \/ clampedLine >= Len(ls)
        THEN [outcome |-> "TypeError", line |-> clampedLine, col |-> 0]
        ELSE [outcome |-> "ok", line |-> clampedLine,
              col |-> clamp(pos.col, 1, Len(ls[clampedLine + 1]))]

\* getContents(): this.lines.join('\n')
getContentsAll(ls) == join(ls)

\* getContents(range): outcome and the string returned
getContents(ls, range) ==
    LET start == convertPosToZeroBased(range.start)
        end == convertPosToZeroBased(range.end)
        clampedStart == clampTextPosition(ls, start)
        clampedEnd == clampTextPosition(ls, end)
    IN  IF clampedStart.outcome /= "ok" THEN [outcome |-> clampedStart.outcome, value |-> <<>>]
        ELSE IF clampedEnd.outcome /= "ok" THEN [outcome |-> clampedEnd.outcome, value |-> <<>>]
        ELSE [outcome |-> "ok",
              value |-> join(<<slice(ls[clampedStart.line + 1], 0, clampedStart.col)>>
                             \o slice(ls, clampedStart.line + 1, clampedEnd.line)
                             \o <<sliceFrom(ls[clampedEnd.line + 1], clampedEnd.col)>>)]

(***************************************************************************)
(* Bounds and inputs of the model.                                         *)
(***************************************************************************)
\* successful insert/replace/remove calls per behaviour
MaxEdits == 2

\* n copies of the character c
Rep(c, n) == [j \in 1..n |-> c]

\* initial documents, given by their line lengths: "", "aaaaa\naaaaa" (the
\* shape of "hello\nworld"), a document whose second line starts on a block
\* boundary, and a line of four and a half blocks
InitShapes == {<<0>>, <<5, 5>>, <<9, 12>>, <<4 * DEFAULT_BLOCK_SIZE + 5>>}

InitDocs == {join([j \in 1..Len(sh) |-> Rep("a", sh[j])]) : sh \in InitShapes}

InsertTexts == {<<>>, <<"x">>, <<NL, "x">>}

ReplaceTexts == {<<"x", NL>>}

\* every position within the document, 1-based
Positions(ls) ==
    UNION {{[line |-> l, col |-> c] : c \in 1..(Len(ls[l]) + 1)} : l \in 1..Len(ls)}

\* positions outside the document
BadPositions(ls) ==
    {[line |-> 0, col |-> 1], [line |-> 1, col |-> 0],
     [line |-> 1, col |-> Len(ls[1]) + 2],
     [line |-> Len(ls) + 1, col |-> 1], [line |-> Len(ls) + 2, col |-> 1]}

(***************************************************************************)
(* Reference conversions, by the definition of an offset: the offset of a  *)
(* position is the number of characters (newlines included) before it.     *)
(***************************************************************************)
RECURSIVE LineStart(_, _)
LineStart(ls, l) == IF l <= 1 THEN 0 ELSE LineStart(ls, l - 1) + Len(ls[l - 1]) + 1

TrueIndex(ls, pos) == LineStart(ls, pos.line) + (pos.col - 1)

NoPosition == [line |-> 0, col |-> 0]

TruePosition(ls, i) ==
    IF \E p \in Positions(ls) : TrueIndex(ls, p) = i
    THEN CHOOSE p \in Positions(ls) : TrueIndex(ls, p) = i
    ELSE NoPosition

\* start is not ordered after end
Ordered(start, end) ==
    start.line < end.line \/ (start.line = end.line /\ start.col <= end.col)

\* the positions mutations are issued at: start, middle and end of the document
EditPositions(ls) ==
    {TruePosition(ls, k) : k \in {0, Len(join(ls)) \div 2, Len(join(ls))}}

\* the ranges mutations are issued with: the non-empty ranges between them
EditRanges(ls) ==
    {r \in [start : EditPositions(ls), end : EditPositions(ls)] :
        Ordered(r.start, r.end) /\ r.start /= r.end}

\* ranges with an endpoint outside the document (the start, the end, both)
BadRanges(ls) ==
    {[start |-> p, end |-> p] : p \in BadPositions(ls)} \cup
    {[start |-> [line |-> 1, col |-> 1], end |-> p] : p \in BadPositions(ls)}

\* the indices indexToPosition is called with: the block boundaries, the
\* first offset of every line, the end of the document and one beyond it
QueryIndices(ls, sz) ==
    {k \in 0..sz : k % DEFAULT_BLOCK_SIZE = 0} \cup {LineStart(ls, l) : l \in 1..Len(ls)}
        \cup {sz, sz + 1}

\* the positions positionToIndex is called with: both ends of every line
QueryPositions(ls) ==
    UNION {{[line |-> l, col |-> 1], [line |-> l, col |-> Len(ls[l]) + 1]} : l \in 1..Len(ls)}

(***************************************************************************)
(* State: the fields of TextStore (str is written once by the constructor  *)
(* and never read, so it is left out), how the last call ended ("ok" when  *)
(* it returned, "threw" when it threw one of its errors, "hang" when it    *)
(* never returned), the mutation that last succeeded, and the number of    *)
(* mutations that succeeded.                                               *)
(***************************************************************************)
VARIABLES lines, size, indexToPosCache, lineToIndexCache, outcome, lastEdit, edits

vars == <<lines, size, indexToPosCache, lineToIndexCache, outcome, lastEdit, edits>>

\* constructor(str)
Init ==
    /\ \E str \in InitDocs : lines = split(str) /\ size = Len(str)
    /\ indexToPosCache = <<>>
    /\ lineToIndexCache = <<>>
    /\ outcome = "ok"
    /\ lastEdit = "constructor"
    /\ edits = 0

\* how a call with outcome o ended
Ended(o) == IF o \in {"ok", "hang"} THEN o ELSE "threw"

\* a call that never returns leaves no caller to make another call
Running == outcome /= "hang"

\* the store after a call of a mutating method; a non-empty insert, a
\* replace or a remove that returns counts as a mutation
Mutate(name, r, counts) ==
    /\ lines' = r.lines
    /\ size' = r.size
    /\ indexToPosCache' = r.ipc
    /\ lineToIndexCache' = r.lic
    /\ outcome' = Ended(r.outcome)
    /\ lastEdit' = IF r.outcome = "ok" /\ counts THEN name ELSE lastEdit
    /\ edits' = IF r.outcome = "ok" /\ counts THEN edits + 1 ELSE edits

Insert ==
    /\ Running /\ edits < MaxEdits
    /\ \E in \in (InsertTexts \X EditPositions(lines)) \cup ({<<"x">>} \X BadPositions(lines)) :
          Mutate("insert",
                 insert(lines, size, indexToPosCache, lineToIndexCache, in[1], in[2]),
                 Len(in[1]) > 0)

Replace ==
    /\ Running /\ edits < MaxEdits
    /\ \E str \in ReplaceTexts : \E range \in EditRanges(lines) \cup BadRanges(lines) :
          Mutate("replace",
                 replace(lines, size, indexToPosCache, lineToIndexCache, range, str), TRUE)

Remove ==
    /\ Running /\ edits < MaxEdits
    /\ \E range \in EditRanges(lines) \cup BadRanges(lines) :
          Mutate("remove",
                 remove(lines, size, indexToPosCache, lineToIndexCache, range), TRUE)

GetSize ==
    /\ Running
    /\ outcome' = "ok"
    /\ UNCHANGED <<lines, size, indexToPosCache, lineToIndexCache, lastEdit, edits>>

GetContents ==
    /\ Running
    /\ \/ outcome' = "ok"
       \/ \E range \in EditRanges(lines) : outcome' = Ended(getContents(lines, range).outcome)
    /\ UNCHANGED <<lines, size, indexToPosCache, lineToIndexCache, lastEdit, edits>>

IndexToPosition ==
    /\ Running
    /\ \E index \in QueryIndices(lines, size) :
          LET r == indexToPosition(lines, size, indexToPosCache, lineToIndexCache, index)
          IN  /\ indexToPosCache' = r.ipc
              /\ lineToIndexCache' = r.lic
              /\ outcome' = Ended(r.outcome)
    /\ UNCHANGED <<lines, size, lastEdit, edits>>

PositionToIndex ==
    /\ Running
    /\ \E pos \in QueryPositions(lines) \cup BadPositions(lines) :
          LET r == positionToIndex(lines, lineToIndexCache, pos)
          IN  /\ lineToIndexCache' = r.lic
              /\ outcome' = Ended(r.outcome)
    /\ UNCHANGED <<lines, size, indexToPosCache, lastEdit, edits>>

Next ==
    \/ Insert
    \/ Replace
    \/ Remove
    \/ GetSize
    \/ GetContents
    \/ IndexToPosition
    \/ PositionToIndex

Spec == Init /\ [][Next]_vars

(***************************************************************************)
(* Inputs the properties below quantify over in every reachable state.     *)
(***************************************************************************)
CheckPositions(ls) == QueryPositions(ls) \cup EditPositions(ls)

\* ranges with start not after end: those between the edit positions (the
\* empty ones included), every whole line, and every single newline
CheckRanges(ls) ==
    {r \in [start : EditPositions(ls), end : EditPositions(ls)] : Ordered(r.start, r.end)}
    \cup {[start |-> [line |-> l, col |-> 1],
           end |-> [line |-> l, col |-> Len(ls[l]) + 1]] : l \in 1..Len(ls)}
    \cup {[start |-> [line |-> l, col |-> Len(ls[l]) + 1],
           end |-> [line |-> l + 1, col |-> 1]] : l \in 1..(Len(ls) - 1)}

NewlineCount(s) == Cardinality({j \in 1..Len(s) : s[j] = NL})

\* old.slice(0, s) + text + old.slice(e)
Spliced(old, s, e, text) == SubSeq(old, 1, s) \o text \o SubSeq(old, e + 1, Len(old))

(***************************************************************************)
(* C1  Invalidation soundness: in every state reached by successful        *)
(* mutations (in-bounds positions, start not after end) interleaved with   *)
(* conversions, indexToPosition(i) returns, for every 0 <= i <= size, the  *)
(* 1-based position of offset i in the current contents.                   *)
(***************************************************************************)
C1_InvalidationSoundness ==
    \A i \in 0..size :
        LET r == indexToPosition(lines, size, indexToPosCache, lineToIndexCache, i)
        IN  r.outcome = "ok" /\ r.pos = TruePosition(lines, i)

(***************************************************************************)
(* C2  Cache transparency: for the current content, indexToPosition(i) and *)
(* positionToIndex(p) return what they return on a store of the same       *)
(* content whose caches are empty.                                         *)
(***************************************************************************)
C2_CacheTransparency ==
    /\ \A i \in 0..size :
          LET warm == indexToPosition(lines, size, indexToPosCache, lineToIndexCache, i)
              cold == indexToPosition(lines, size, <<>>, <<>>, i)
          IN  warm.outcome = cold.outcome /\ warm.pos = cold.pos
    /\ \A p \in Positions(lines) :
          LET warm == positionToIndex(lines, lineToIndexCache, p)
              cold == positionToIndex(lines, <<>>, p)
          IN  warm.outcome = cold.outcome /\ warm.index = cold.index

(***************************************************************************)
(* C3  positionToIndex(p) returns, for every in-bounds position p and in   *)
(* every reachable state (a freshly constructed store included), the       *)
(* zero-based offset of p: the lengths plus one of the lines before        *)
(* p.line, plus p.col - 1.                                                 *)
(***************************************************************************)
C3_PositionToIndexOffset ==
    \A p \in Positions(lines) :
        LET r == positionToIndex(lines, lineToIndexCache, p)
        IN  r.outcome = "ok" /\ r.index = TrueIndex(lines, p)

(***************************************************************************)
(* C4  On a store that was constructed and then only queried (no           *)
(* mutation), indexToPosition(i) returns for every 0 <= i <= size the      *)
(* 1-based position of offset i; index 0 maps to {line 1, col 1} and       *)
(* i = size to the end of the last line.                                   *)
(***************************************************************************)
C4_IndexToPositionQueriedOnly ==
    edits = 0 =>
        /\ \A i \in 0..size :
              LET r == indexToPosition(lines, size, indexToPosCache, lineToIndexCache, i)
              IN  r.outcome = "ok" /\ r.pos = TruePosition(lines, i)
        /\ indexToPosition(lines, size, indexToPosCache, lineToIndexCache, 0).pos
              = [line |-> 1, col |-> 1]
        /\ indexToPosition(lines, size, indexToPosCache, lineToIndexCache, size).pos
              = [line |-> Len(lines), col |-> Len(lines[Len(lines)]) + 1]

\* a queried-only store whose block cache holds an anchor on the second line
\* and whose line cache is populated: later calls start from cached anchors
C4_Witness ==
    /\ edits = 0
    /\ Len(indexToPosCache) >= 3 /\ indexToPosCache[3].set /\ indexToPosCache[3].line = 1
    /\ Len(lineToIndexCache) >= 2

(***************************************************************************)
(* C5  Round trip index -> position -> index: in every reachable state and *)
(* for every 0 <= i <= size, positionToIndex(indexToPosition(i)) does not  *)
(* fail and equals i.                                                      *)
(***************************************************************************)
C5_RoundTripIndex ==
    \A i \in 0..size :
        LET a == indexToPosition(lines, size, indexToPosCache, lineToIndexCache, i)
            b == positionToIndex(lines, a.lic, a.pos)
        IN  a.outcome = "ok" /\ b.outcome = "ok" /\ b.index = i

(***************************************************************************)
(* C6  Round trip position -> index -> position: in every reachable state  *)
(* (a freshly constructed store included) and for every in-bounds position *)
(* p, indexToPosition(positionToIndex(p)) does not fail and equals p.      *)
(***************************************************************************)
C6_RoundTripPosition ==
    \A p \in Positions(lines) :
        LET a == positionToIndex(lines, lineToIndexCache, p)
            b == indexToPosition(lines, size, indexToPosCache, a.lic, a.index)
        IN  a.outcome = "ok" /\ b.outcome = "ok" /\ b.pos = p

(***************************************************************************)
(* C7  Size consistency: after construction and after any sequence of      *)
(* insert/replace/remove calls with in-bounds positions and start not      *)
(* after end, failed calls included, getSize() equals                      *)
(* getContents().length.                                                   *)
(***************************************************************************)
C7_SizeConsistency == getSize(size) = Len(getContentsAll(lines))

\* two mutations succeeded, the last a remove that left several lines, and a
\* call has failed since
C7_Witness ==
    /\ edits >= 2 /\ lastEdit = "remove" /\ Len(lines) > 1
    /\ outcome = "threw"

(***************************************************************************)
(* C8  insert(text, at) with non-empty text and in-bounds at: afterwards   *)
(* the contents are old.slice(0, k) + text + old.slice(k), k the offset of *)
(* at; the size has grown by text.length; and the line count has grown by  *)
(* the number of newlines in text.                                         *)
(***************************************************************************)
C8_InsertSplices ==
    \A str \in InsertTexts \ {<<>>} : \A at \in CheckPositions(lines) :
        LET r == insert(lines, size, indexToPosCache, lineToIndexCache, str, at)
            k == TrueIndex(lines, at)
        IN  /\ r.outcome = "ok"
            /\ getContentsAll(r.lines) = Spliced(getContentsAll(lines), k, k, str)
            /\ getSize(r.size) = getSize(size) + Len(str)
            /\ Len(r.lines) = Len(lines) + NewlineCount(str)

\* "\nx" has just been inserted at the end of the first line of "aaaaa\naaaaa"
C8_Witness ==
    /\ lastEdit = "insert" /\ outcome = "ok" /\ edits = 1
    /\ lines = <<Rep("a", 5), <<"x">>, Rep("a", 5)>>

(***************************************************************************)
(* C9  replace(range, text) with in-bounds endpoints and start not after   *)
(* end: afterwards the contents are old.slice(0, s) + text + old.slice(e), *)
(* s and e the offsets of range.start and range.end; remove(range) has the *)
(* effect of replace(range, ""), and removing a range that spans only a    *)
(* newline joins the two lines.                                            *)
(***************************************************************************)
C9_ReplaceSplices ==
    \A range \in CheckRanges(lines) :
        LET old == getContentsAll(lines)
            s == TrueIndex(lines, range.start)
            e == TrueIndex(lines, range.end)
            rm == remove(lines, size, indexToPosCache, lineToIndexCache, range)
        IN  /\ \A str \in ReplaceTexts :
                  LET r == replace(lines, size, indexToPosCache, lineToIndexCache, range, str)
                  IN  r.outcome = "ok" /\ getContentsAll(r.lines) = Spliced(old, s, e, str)
            /\ rm.outcome = "ok"
            /\ getContentsAll(rm.lines) = Spliced(old, s, e, <<>>)
            /\ (range.end = [line |-> range.start.line + 1, col |-> 1]
                    /\ range.start.col = Len(lines[range.start.line]) + 1)
                  => /\ Len(rm.lines) = Len(lines) - 1
                     /\ rm.lines[range.start.line]
                           = lines[range.start.line] \o lines[range.start.line + 1]

\* the second half of "aaaaa\naaaaa", newline included, has just been removed
\* from a store whose caches had been filled
C9_Witness ==
    /\ lastEdit = "remove" /\ outcome = "ok" /\ edits = 1
    /\ lines = <<Rep("a", 5)>>
    /\ lineToIndexCache /= <<>>

(***************************************************************************)
(* C10  getContents(range), for an in-bounds range with start not after    *)
(* end, returns getContents().slice(s, e), s and e the offsets of          *)
(* range.start and range.end.                                              *)
(***************************************************************************)
C10_GetContentsSlice ==
    \A range \in CheckRanges(lines) :
        LET r == getContents(lines, range)
            s == TrueIndex(lines, range.start)
            e == TrueIndex(lines, range.end)
        IN  r.outcome = "ok" /\ r.value = SubSeq(getContentsAll(lines), s + 1, e)

(***************************************************************************)
(* Positions outside the document, by the way they are outside.            *)
(***************************************************************************)
\* 1-based line greater than the line count, or zero-based column greater
\* than the length of the line
BeyondPositions(ls) ==
    {[line |-> Len(ls) + 1, col |-> 1], [line |-> Len(ls) + 2, col |-> 1]}
    \cup {[line |-> l, col |-> Len(ls[l]) + 2] : l \in 1..Len(ls)}

\* 1-based line below 1, or 1-based column below 1
BelowPositions(ls) ==
    {[line |-> 0, col |-> 1], [line |-> -1, col |-> 1]}
    \cup {[line |-> l, col |-> 0] : l \in 1..Len(ls)}
    \cup {[line |-> l, col |-> -1] : l \in 1..Len(ls)}

\* the end-of-line insertion points
EndOfLinePositions(ls) == {[line |-> l, col |-> Len(ls[l]) + 1] : l \in 1..Len(ls)}

\* the outcomes of insert("x", p), replace, remove (p as both endpoints, and
\* p as the end of a range that starts at {1, 1}) and positionToIndex(p)
OutcomesAt(p) ==
    LET first == [line |-> 1, col |-> 1]
    IN  {insert(lines, size, indexToPosCache, lineToIndexCache, <<"x">>, p).outcome,
         replace(lines, size, indexToPosCache, lineToIndexCache,
                 [start |-> p, end |-> p], <<"x">>).outcome,
         replace(lines, size, indexToPosCache, lineToIndexCache,
                 [start |-> first, end |-> p], <<"x">>).outcome,
         remove(lines, size, indexToPosCache, lineToIndexCache,
                [start |-> p, end |-> p]).outcome,
         remove(lines, size, indexToPosCache, lineToIndexCache,
                [start |-> first, end |-> p]).outcome,
         positionToIndex(lines, lineToIndexCache, p).outcome}

(***************************************************************************)
(* C11  getContents(range) never fails: for every document and every       *)
(* range, in bounds or with an endpoint outside the document, the call     *)
(* returns a string, each endpoint clamped to a zero-based line in         *)
(* [0, lastLine] and a column in [0, length of that line].                 *)
(***************************************************************************)
C11_GetContentsNeverFails ==
    \A range \in CheckRanges(lines) \cup BadRanges(lines) :
        /\ getContents(lines, range).outcome = "ok"
        /\ \A p \in {range.start, range.end} :
              LET c == clampTextPosition(lines, convertPosToZeroBased(p))
              IN  /\ c.line \in 0..(Len(lines) - 1)
                  /\ c.col \in 0..Len(lines[c.line + 1])

(***************************************************************************)
(* C12  insert (non-empty text), replace, remove and positionToIndex fail  *)
(* with PositionOutOfRange, and with no other error, when the 1-based line *)
(* of a position is greater than the line count or its zero-based column   *)
(* is greater than the length of the line; a position at the end of a line *)
(* (zero-based column equal to the length) is accepted.                    *)
(***************************************************************************)
C12_PositionOutOfRange ==
    /\ \A p \in BeyondPositions(lines) : OutcomesAt(p) = {"PositionOutOfRange"}
    /\ \A p \in EndOfLinePositions(lines) : OutcomesAt(p) = {"ok"}

(***************************************************************************)
(* C13  insert (non-empty text), replace, remove and positionToIndex fail  *)
(* with InvalidPosition when the 1-based line of a position is below 1 or  *)
(* its 1-based column is below 1.                                          *)
(***************************************************************************)
C13_InvalidPosition ==
    \A p \in BelowPositions(lines) : OutcomesAt(p) = {"InvalidPosition"}

(***************************************************************************)
(* C14  indexToPosition(index) fails with IndexOutOfRange for every index  *)
(* greater than getSize(), and succeeds (returns a position) for           *)
(* index = getSize() and for every smaller non-negative index.             *)
(***************************************************************************)
C14_IndexOutOfRange ==
    /\ \A index \in (size + 1)..(size + 2) :
          indexToPosition(lines, size, indexToPosCache, lineToIndexCache, index).outcome
              = "IndexOutOfRange"
    /\ \A index \in 0..size :
          indexToPosition(lines, size, indexToPosCache, lineToIndexCache, index).outcome
              = "ok"

(***************************************************************************)
(* C15  No partial mutation on failure: when insert, replace, remove,      *)
(* positionToIndex or indexToPosition raises an error, the line array, the *)
(* size counter, the Block Cache and the Line Cache are as they were       *)
(* before the call; for replace and remove this includes a range whose     *)
(* start is valid and whose end is not.                                    *)
(***************************************************************************)
Raised(o) == o \notin {"ok", "hang"}

SameStore(r) ==
    /\ r.lines = lines /\ r.size = size
    /\ r.ipc = indexToPosCache /\ r.lic = lineToIndexCache

C15_NoPartialMutation ==
    LET valid == EditPositions(lines)
    IN  /\ \A p \in BeyondPositions(lines) \cup BelowPositions(lines) :
              LET i == insert(lines, size, indexToPosCache, lineToIndexCache, <<"x">>, p)
                  q == positionToIndex(lines, lineToIndexCache, p)
              IN  /\ Raised(i.outcome) /\ SameStore(i)
                  /\ Raised(q.outcome) /\ q.lic = lineToIndexCache
                  /\ \A start \in {p} \cup valid :
                        LET range == [start |-> start, end |-> p]
                            r == replace(lines, size, indexToPosCache, lineToIndexCache,
                                         range, <<"x">>)
                            d == remove(lines, size, indexToPosCache, lineToIndexCache,
                                        range)
                        IN  /\ Raised(r.outcome) /\ SameStore(r)
                            /\ Raised(d.outcome) /\ SameStore(d)
        /\ LET t == indexToPosition(lines, size, indexToPosCache, lineToIndexCache,
                                    size + 1)
           IN  Raised(t.outcome) /\ t.ipc = indexToPosCache /\ t.lic = lineToIndexCache

\* a call has just raised an error on a store that was mutated and whose two
\* caches had been filled again
C15_Witness ==
    /\ outcome = "threw" /\ edits >= 1
    /\ indexToPosCache /= <<>> /\ lineToIndexCache /= <<>>
    /\ Len(lines) > 1

(***************************************************************************)
(* C16  Termination: in every state reached by valid insert/replace/remove *)
(* and conversion calls, indexToPosition(i) with 0 <= i <= size and        *)
(* positionToIndex(p) with in-bounds p run to completion and return; the   *)
(* block-boundary loop of indexToPosition ends.                            *)
(***************************************************************************)
C16_Termination ==
    /\ \A i \in 0..size :
          indexToPosition(lines, size, indexToPosCache, lineToIndexCache, i).outcome
              /= "hang"
    /\ \A p \in Positions(lines) :
          positionToIndex(lines, lineToIndexCache, p).outcome /= "hang"

(***************************************************************************)
(* C17  Monotonic truncation: right after the invalidation step of an      *)
(* edit at the in-bounds position p (zero-based, offsets taken before the  *)
(* mutation), from every cache state, the Line Cache holds no entry for a  *)
(* line >= p.line and the Block Cache holds no entry for a key             *)
(* >= roundDown(k, B), k the true offset of p; p = {line 0, col 0}         *)
(* included.                                                               *)
(***************************************************************************)
\* the populated keys of the block cache / the populated lines of the line cache
BlockKeys(arr) == {(j - 1) * DEFAULT_BLOCK_SIZE : j \in {i \in 1..Len(arr) : arr[i].set}}

LineKeys(arr) == {j - 1 : j \in {i \in 1..Len(arr) : arr[i] /= Undefined}}

C17_MonotonicTruncation ==
    \A at \in Positions(lines) :
        LET p == convertPosToZeroBased(at)
            k == TrueIndex(lines, at)
            f == flushCache(lines, indexToPosCache, lineToIndexCache, p)
        IN  /\ \A n \in LineKeys(f.lic) : n < p.line
            /\ \A key \in BlockKeys(f.ipc) : key < roundToLowerBlockSize(k)

(***************************************************************************)
(* C18  Block Cache entry soundness: in every reachable state, every       *)
(* present Block Cache entry has a key k that is a positive multiple of B, *)
(* and its value is the zero-based {line, col} of offset k in the current  *)
(* document, with 0 <= col <= length of that line.                         *)
(***************************************************************************)
C18_BlockEntrySoundness ==
    \A k \in BlockKeys(indexToPosCache) :
        LET v == SCacheGet(indexToPosCache, k)
            t == TruePosition(lines, k)
        IN  /\ k > 0 /\ k % DEFAULT_BLOCK_SIZE = 0
            /\ t /= NoPosition
            /\ v.line = t.line - 1 /\ v.col = t.col - 1
            /\ v.col >= 0 /\ v.col <= Len(lines[t.line])

(***************************************************************************)
(* C19  Line Cache entry soundness: in every reachable state, every        *)
(* present Line Cache entry for the zero-based line n holds the zero-based *)
(* offset at which line n begins in the current document (0 for line 0),   *)
(* whichever operation wrote it.                                           *)
(***************************************************************************)
C19_LineEntrySoundness ==
    \A n \in LineKeys(lineToIndexCache) :
        /\ n < Len(lines)
        /\ VCacheGet(lineToIndexCache, n) = LineStart(lines, n + 1)

(***************************************************************************)
(* C20  Anchor search, block variant: whenever indexToPosition misses the  *)
(* Block Cache at both c = roundDown(index, B) and c - B,                  *)
(* findHighestCachedIndexToPos(B, c) returns the highest populated key in  *)
(* [B, c] with its entry, and no result only when no key in [B, c] is      *)
(* populated.                                                              *)
(***************************************************************************)
\* the values of c = roundDown(index, B), 0 <= index <= size, that miss twice
SearchBounds ==
    {c \in {roundToLowerBlockSize(i) : i \in 0..size} :
        /\ ~SCacheGet(indexToPosCache, c).set
        /\ ~SCacheGet(indexToPosCache, c - DEFAULT_BLOCK_SIZE).set}

KeysUpTo(c) == {k \in BlockKeys(indexToPosCache) : k >= DEFAULT_BLOCK_SIZE /\ k <= c}

C20_AnchorSearchBlock ==
    \A c \in SearchBounds :
        LET res == findHighestCachedIndexToPos(indexToPosCache, DEFAULT_BLOCK_SIZE, c)
        IN  IF KeysUpTo(c) = {} THEN ~res.found
            ELSE /\ res.found
                 /\ \A k \in KeysUpTo(c) : k <= res.index
                 /\ res.index \in KeysUpTo(c)
                 /\ res.pos = SCacheGet(indexToPosCache, res.index)

\* both probes of some index miss while a lower key is populated: the search
\* has something to find
C20_Witness == \E c \in SearchBounds : KeysUpTo(c) /= {}

(***************************************************************************)
(* The store under every call that passes validation: replace and remove   *)
(* are also called with ranges whose start is ordered after their end,     *)
(* which checkTextPosition does not reject.                                *)
(***************************************************************************)
\* every range between the edit positions, in either order, the empty ones
\* excluded
AnyRanges(ls) ==
    {r \in [start : EditPositions(ls), end : EditPositions(ls)] : r.start /= r.end}

ReplaceAny ==
    /\ Running /\ edits < MaxEdits
    /\ \E str \in ReplaceTexts : \E range \in AnyRanges(lines) \cup BadRanges(lines) :
          Mutate("replace",
                 replace(lines, size, indexToPosCache, lineToIndexCache, range, str), TRUE)

RemoveAny ==
    /\ Running /\ edits < MaxEdits
    /\ \E range \in AnyRanges(lines) \cup BadRanges(lines) :
          Mutate("remove",
                 remove(lines, size, indexToPosCache, lineToIndexCache, range), TRUE)

NextAny ==
    \/ Insert
    \/ ReplaceAny
    \/ RemoveAny
    \/ GetSize
    \/ GetContents
    \/ IndexToPosition
    \/ PositionToIndex

SpecAny == Init /\ [][NextAny]_vars

\* the sum of the lengths of the lines
RECURSIVE SumOfLengths(_)
SumOfLengths(ls) == IF Len(ls) = 0 THEN 0 ELSE Len(ls[1]) + SumOfLengths(Tail(ls))

(***************************************************************************)
(* C21  Size counter over every accepted call: in every state reached by   *)
(* insert/replace/remove calls that pass validation, replace/remove with   *)
(* range.start ordered after range.end included, the size counter equals   *)
(* the sum of the line lengths plus (lineCount - 1).                       *)
(***************************************************************************)
C21_SizeCounterAnyRange == size = SumOfLengths(lines) + (Len(lines) - 1)

(***************************************************************************)
(* C22  Block Cache density: in every reachable state the populated Block  *)
(* Cache keys are exactly {B, 2B, ..., mB} for some m >= 0; key 0 is never *)
(* populated and no key is absent below a populated one.                   *)
(***************************************************************************)
C22_BlockCacheDensity ==
    BlockKeys(indexToPosCache)
        = {j * DEFAULT_BLOCK_SIZE : j \in 1..Cardinality(BlockKeys(indexToPosCache))}

\* after an insert into a one-line document a conversion has filled the block
\* cache again: at least four keys are populated
C22_Witness ==
    /\ edits >= 1 /\ lastEdit = "insert" /\ outcome = "ok"
    /\ Cardinality(BlockKeys(indexToPosCache)) >= 4
    /\ Len(lines) = 1

====
